---------------------------- MODULE Spec2Model ----------------------------
(***************************************************************************)
(* A model of main.py of PEMJKSGenBot: the request-assembly state machine  *)
(* (aiogram handlers over the per-subject FSM context), the pipeline       *)
(* _process_request with its suspension points, the project and            *)
(* superseded directories, and the distinguished-name codec.               *)
(*                                                                         *)
(* Text is modelled as a sequence of one-character strings, so that        *)
(* strip, splitlines, replace and the DN escaping are computed, not        *)
(* assumed.  An optional value (Python's None) is a sequence of length     *)
(* at most one: <<>> is None, <<v>> is the value v.                        *)
(***************************************************************************)
EXTENDS Integers, Sequences, FiniteSets, TLC

VARIABLES
    fsm,      \* subject -> FSM context: state, data["file_req"], data["package_name"]
    conts,    \* subject -> package names of text_handler calls suspended in answer()
    fs,       \* base name -> the project directory generated/<base>
    old,      \* entry name -> a directory moved under generated_old/
    runs,     \* the _process_request calls started so far, in order
    nmsg,     \* number of inbound messages dispatched so far
    ev,       \* the last dispatch: message, handler chosen, reply, run started
    dn,       \* the DN codec's input, encoding and decoding
    san       \* _sanitize_name's input and outputs

botVars == <<fsm, conts, fs, old, runs, nmsg, ev>>
vars == <<fsm, conts, fs, old, runs, nmsg, ev, dn, san>>

----------------------------------------------------------------------------
(* Bounds of the model                                                     *)

\* pipeline runs started in one behaviour
MaxRuns == 2
\* inbound messages dispatched in one behaviour
MaxMsgs == 3
\* subjects that send messages
NumSubjects == 1
\* length of the free-text identity values given to the DN codec
MaxLen == 2
\* length of the texts given to _sanitize_name
MaxSanLen == 3
\* number of entries under generated_old/ in the archive machine
MaxArchived == 4

----------------------------------------------------------------------------
(* Text helpers: Python's str methods over sequences of characters         *)

None == <<>>
Some(v) == <<v>>
IsNone(o) == o = <<>>
Val(o) == o[1]

\* str.isspace for the characters that occur
IsSpace(c) == c \in {" ", "\n", "\t"}

RECURSIVE LStrip(_)
LStrip(s) ==
    IF s = <<>> THEN <<>>
    ELSE IF IsSpace(Head(s)) THEN LStrip(Tail(s)) ELSE s

RECURSIVE RStrip(_)
RStrip(s) ==
    IF s = <<>> THEN <<>>
    ELSE IF IsSpace(s[Len(s)]) THEN RStrip(SubSeq(s, 1, Len(s) - 1)) ELSE s

\* str.strip()
Strip(s) == RStrip(LStrip(s))

\* str.startswith(p)
StartsWith(s, p) == Len(s) >= Len(p) /\ SubSeq(s, 1, Len(p)) = p

\* str.replace(a, b): non-overlapping occurrences, left to right; a non-empty
RECURSIVE Replace(_, _, _)
Replace(s, a, b) ==
    IF s = <<>> THEN <<>>
    ELSE IF StartsWith(s, a)
         THEN b \o Replace(SubSeq(s, Len(a) + 1, Len(s)), a, b)
         ELSE <<Head(s)>> \o Replace(Tail(s), a, b)

\* index of the first occurrence of character c in s, 0 when there is none
RECURSIVE IndexOf(_, _)
IndexOf(s, c) ==
    IF s = <<>> THEN 0
    ELSE IF Head(s) = c THEN 1
    ELSE LET i == IndexOf(Tail(s), c) IN IF i = 0 THEN 0 ELSE i + 1

\* index of the last occurrence of character c in s, 0 when there is none
RECURSIVE LastIndexOf(_, _)
LastIndexOf(s, c) ==
    IF s = <<>> THEN 0
    ELSE IF s[Len(s)] = c THEN Len(s)
    ELSE LastIndexOf(SubSeq(s, 1, Len(s) - 1), c)

\* index at which the first occurrence of the text p starts in s, 0 when none
RECURSIVE Find(_, _)
Find(s, p) ==
    IF Len(s) < Len(p) THEN 0
    ELSE IF StartsWith(s, p) THEN 1
    ELSE LET i == Find(Tail(s), p) IN IF i = 0 THEN 0 ELSE i + 1

\* str.splitlines(): the lines of s, a final line break opening no empty line
RECURSIVE SplitLines(_)
SplitLines(s) ==
    IF s = <<>> THEN <<>>
    ELSE LET i == IndexOf(s, "\n") IN
         IF i = 0 THEN <<s>>
         ELSE <<SubSeq(s, 1, i - 1)>> \o SplitLines(SubSeq(s, i + 1, Len(s)))

\* the concatenation of a sequence of texts
RECURSIVE Concat(_)
Concat(ss) == IF ss = <<>> THEN <<>> ELSE Head(ss) \o Concat(Tail(ss))

----------------------------------------------------------------------------
(* The DN codec                                                            *)

\* dataclass DNameInfo
DNameInfo(fn, ln, ou, o, l, st, c) ==
    [first_name |-> fn, last_name |-> ln, organization_unit |-> ou,
     organization |-> o, city |-> l, state |-> st, country_code |-> c]

\* esc, inside _random_dname: backslash doubled first, then comma escaped
esc(value) == Replace(Replace(value, <<"\\">>, <<"\\", "\\">>), <<",">>, <<"\\", ",">>)

\* _random_dname: the -dname argument built from a DNameInfo
random_dname(info) ==
    <<"C", "N", "=">> \o esc(info.first_name \o <<" ">> \o info.last_name)
    \o <<",", " ", "O", "U", "=">> \o esc(info.organization_unit)
    \o <<",", " ", "O", "=">> \o esc(info.organization)
    \o <<",", " ", "L", "=">> \o esc(info.city)
    \o <<",", " ", "S", "=">> \o esc(info.state)
    \o <<",", " ", "C", "=">> \o esc(info.country_code)

\* the loop of _split_dn from position i on: parts so far, the current
\* segment, and whether the previous character was an unconsumed backslash
RECURSIVE SplitDnLoop(_, _, _, _, _)
SplitDnLoop(owner, i, parts, current, escaped) ==
    IF i > Len(owner)
    THEN LET tail == Strip(current) IN
         IF tail # <<>> THEN Append(parts, tail) ELSE parts
    ELSE LET ch == owner[i] IN
         IF escaped THEN SplitDnLoop(owner, i + 1, parts, Append(current, ch), FALSE)
         ELSE IF ch = "\\" THEN SplitDnLoop(owner, i + 1, parts, current, TRUE)
         ELSE IF ch = ","
              THEN LET part == Strip(current) IN
                   SplitDnLoop(owner, i + 1,
                               IF part # <<>> THEN Append(parts, part) ELSE parts,
                               <<>>, FALSE)
         ELSE SplitDnLoop(owner, i + 1, parts, Append(current, ch), FALSE)

\* _split_dn
split_dn(owner) == SplitDnLoop(owner, 1, <<>>, <<>>, FALSE)

\* _unescape_dn
unescape_dn(value) ==
    Strip(Replace(Replace(value, <<"\\", ",">>, <<",">>), <<"\\", "\\">>, <<"\\">>))

\* the dict `parts` of _read_dname_from_jks after the items up to the n-th:
\* the value stored under `key`, None when the key was never stored
RECURSIVE PartsGet(_, _, _)
PartsGet(items, n, key) ==
    IF n = 0 THEN None
    ELSE LET item == items[n]
             eq == IndexOf(item, "=")
         IN IF eq # 0 /\ Strip(SubSeq(item, 1, eq - 1)) = key
            THEN Some(unescape_dn(SubSeq(item, eq + 1, Len(item))))
            ELSE PartsGet(items, n - 1, key)

\* parts.get(key, "")
PartsGetOr(items, key) ==
    LET v == PartsGet(items, Len(items), key) IN IF IsNone(v) THEN <<>> ELSE Val(v)

\* the part of _read_dname_from_jks after the Owner line was found
DecodeOwner(owner) ==
    IF owner = <<>> THEN None
    ELSE LET items == split_dn(owner)
             anyPart == \E n \in 1..Len(items) : IndexOf(items[n], "=") # 0
             common_name == PartsGetOr(items, <<"C", "N">>)
             sp1 == IndexOf(common_name, " ")
             spN == LastIndexOf(common_name, " ")
             first_name == IF sp1 = 0 THEN common_name
                           ELSE SubSeq(common_name, 1, sp1 - 1)
             last_name == SubSeq(common_name, spN + 1, Len(common_name))
             s == PartsGetOr(items, <<"S">>)
             state == IF s # <<>> THEN s ELSE PartsGetOr(items, <<"S", "T">>)
         IN IF ~anyPart THEN None
            ELSE Some(DNameInfo(first_name, last_name,
                                PartsGetOr(items, <<"O", "U">>),
                                PartsGetOr(items, <<"O">>),
                                PartsGetOr(items, <<"L">>),
                                state,
                                PartsGetOr(items, <<"C">>)))

OwnerMarker == <<"O", "w", "n", "e", "r", ":">>

\* the scan of keytool's listing for the first line starting with "Owner:"
RECURSIVE OwnerOf(_)
OwnerOf(lines) ==
    IF lines = <<>> THEN <<>>
    ELSE IF StartsWith(Strip(Head(lines)), OwnerMarker)
         THEN LET line == Head(lines)
                  at == Find(line, OwnerMarker)
              IN Strip(SubSeq(line, at + Len(OwnerMarker), Len(line)))
         ELSE OwnerOf(Tail(lines))

\* _read_dname_from_jks on the standard output of a listing that exited 0
read_dname_from_stdout(stdout) == DecodeOwner(OwnerOf(SplitLines(stdout)))

----------------------------------------------------------------------------
(* Program constants and the pure helpers of the pipeline                  *)

DEFAULT_PASSWORD == <<"1", "2", "3", "4", "5", "6", "7", "8", "9", "0">>
DEFAULT_ALIAS == <<"k", "e", "y", "0">>

UpperCase ==
    <<"A", "B", "C", "D", "E", "F", "G", "H", "I", "J", "K", "L", "M",
      "N", "O", "P", "Q", "R", "S", "T", "U", "V", "W", "X", "Y", "Z">>
LowerCase ==
    <<"a", "b", "c", "d", "e", "f", "g", "h", "i", "j", "k", "l", "m",
      "n", "o", "p", "q", "r", "s", "t", "u", "v", "w", "x", "y", "z">>
Digits == <<"0", "1", "2", "3", "4", "5", "6", "7", "8", "9">>

\* the characters the pattern [A-Za-z0-9._-] of _sanitize_name keeps
SafeChars ==
    {UpperCase[i] : i \in 1..26} \cup {LowerCase[i] : i \in 1..26}
    \cup {Digits[i] : i \in 1..10} \cup {".", "_", "-"}

\* re.sub(r"[^A-Za-z0-9._-]+", "_", value): each maximal run of other
\* characters becomes one underscore; inRun says the previous character
\* belonged to such a run
RECURSIVE SubUnsafe(_, _)
SubUnsafe(value, inRun) ==
    IF value = <<>> THEN <<>>
    ELSE IF Head(value) \in SafeChars
         THEN <<Head(value)>> \o SubUnsafe(Tail(value), FALSE)
         ELSE (IF inRun THEN <<>> ELSE <<"_">>) \o SubUnsafe(Tail(value), TRUE)

KeystoreWord == <<"k", "e", "y", "s", "t", "o", "r", "e">>

\* a sanitizer without the default name; C18 tells it from _sanitize_name
sanitize_or_empty(value) == SubUnsafe(Strip(value), FALSE)

\* _sanitize_name
sanitize_name(value) ==
    LET v == SubUnsafe(Strip(value), FALSE) IN IF v = <<>> THEN KeystoreWord ELSE v

\* os.path.splitext(filename)[0] for a name without directory separators:
\* the name up to its last dot, unless that dot is one of its leading dots
splitext_root(filename) ==
    LET i == LastIndexOf(filename, ".") IN
    IF i = 0 \/ (\A k \in 1..i : filename[k] = ".") THEN filename
    ELSE SubSeq(filename, 1, i - 1)

\* the comprehension of _parse_alias_password: the stripped non-blank lines
RECURSIVE NonBlankLines(_)
NonBlankLines(lines) ==
    IF lines = <<>> THEN <<>>
    ELSE (IF Strip(Head(lines)) # <<>> THEN <<Strip(Head(lines))>> ELSE <<>>)
         \o NonBlankLines(Tail(lines))

\* a parser that takes the alias and never a password; C10 tells it from
\* _parse_alias_password
parse_alias_only(text) ==
    LET lines == NonBlankLines(SplitLines(text)) IN
    IF lines = <<>> THEN <<None, None>> ELSE <<Some(lines[1]), None>>

\* _parse_alias_password: <<alias, password>>, each optional
parse_alias_password(text) ==
    LET lines == NonBlankLines(SplitLines(text)) IN
    IF lines = <<>> THEN <<None, None>>
    ELSE <<Some(lines[1]), IF Len(lines) >= 2 THEN Some(lines[2]) ELSE None>>

\* `x or default` for an optional text: None and "" both give the default
OrDefault(o, default) == IF IsNone(o) \/ Val(o) = <<>> THEN default ELSE Val(o)

\* a rendering that writes an empty value as it is; C15 tells it from val
val_as_is(value) == value

\* val, inside _format_info
val(value) == IF value # <<>> THEN value ELSE <<"-">>

EmptyDName == DNameInfo(<<>>, <<>>, <<>>, <<>>, <<>>, <<>>, <<>>)

\* _format_info: the summary text.  A label is one element of the text, a
\* value is spelled out in characters.
format_info(dname_info, alias, password) ==
    LET d == IF IsNone(dname_info) THEN EmptyDName ELSE Val(dname_info) IN
    <<"[key data]:", "\n", "First name: ">> \o val(d.first_name)
    \o <<"\n", "Last name: ">> \o val(d.last_name)
    \o <<"\n", "Organization unit: ">> \o val(d.organization_unit)
    \o <<"\n", "Organization: ">> \o val(d.organization)
    \o <<"\n", "City: ">> \o val(d.city)
    \o <<"\n", "State: ">> \o val(d.state)
    \o <<"\n", "Country code: ">> \o val(d.country_code)
    \o <<"\n", "\n", "Alias: ">> \o alias
    \o <<"\n", "Password: ">> \o password

----------------------------------------------------------------------------
(* The file system: generated/<base> and generated_old/<entry>             *)

\* a directory: whether it exists and the content of each of its four files
NoDir == [exists |-> FALSE, jks |-> None, pem |-> None, info |-> None, user |-> None]
EmptyDir == [NoDir EXCEPT !.exists = TRUE]

\* _project_paths: the project directory holds <base>.jks, <base>.pem,
\* info.txt and user.txt, the four fields of a directory
project_paths(base_name) == {"jks", "pem", "info", "user"}

\* os.makedirs(project_dir, exist_ok=True)
makedirs(dir) == IF dir.exists THEN dir ELSE EmptyDir

\* str(idx) of _next_old_project_dir
RECURSIVE IntText(_)
IntText(n) == IF n < 10 THEN <<Digits[n + 1]>> ELSE IntText(n \div 10) \o <<Digits[(n % 10) + 1]>>

\* a loop that takes its first candidate whatever is there; C16 tells it
\* from the while loop of _next_old_project_dir
NextOldOnce(base_name, idx, oldDirs) == base_name \o <<"-">> \o IntText(idx)

\* the while loop of _next_old_project_dir from idx on
RECURSIVE NextOldFrom(_, _, _)
NextOldFrom(base_name, idx, oldDirs) ==
    LET candidate == base_name \o <<"-">> \o IntText(idx) IN
    IF candidate \notin DOMAIN oldDirs THEN candidate
    ELSE NextOldFrom(base_name, idx + 1, oldDirs)

\* a naming of the archive entry that never looks at the entries there
\* are; C8 tells it from _next_old_project_dir
first_old_project_dir(base_name, oldDirs) == base_name

\* _next_old_project_dir
next_old_project_dir(base_name, oldDirs) ==
    IF base_name \notin DOMAIN oldDirs THEN base_name
    ELSE NextOldFrom(base_name, 1, oldDirs)

\* a project that is removed instead of moved; C2 tells it from
\* _archive_existing_project
remove_existing_project(base_name, f, o) ==
    IF ~f[base_name].exists THEN [fs |-> f, old |-> o, entry |-> None]
    ELSE [fs |-> [f EXCEPT ![base_name] = NoDir], old |-> o,
          entry |-> Some(next_old_project_dir(base_name, o))]

\* _archive_existing_project: the pair of file systems after the move of
\* generated/<base> to its entry under generated_old/
archive_existing_project(base_name, f, o) ==
    IF ~f[base_name].exists THEN [fs |-> f, old |-> o, entry |-> None]
    ELSE LET old_dir == next_old_project_dir(base_name, o) IN
         [fs |-> [f EXCEPT ![base_name] = NoDir],
          old |-> [e \in DOMAIN o \cup {old_dir} |->
                      IF e = old_dir THEN f[base_name] ELSE o[e]],
          entry |-> Some(old_dir)]

----------------------------------------------------------------------------
(* Inbound messages                                                        *)

\* the subjects (chats) that write to the bot, by number
Subjects == 1..NumSubjects

HelpText == <<"/", "h", "e", "l", "p">>
StatusText == <<"/", "s", "t", "a", "t", "u", "s">>
StartText == <<"/", "s", "t", "a", "r", "t">>

\* the texts a subject sends: blank, a package name to be stripped, the
\* digits of the reuse question, and the three commands
Texts ==
    { <<" ">>, <<" ", "p", " ">>, <<"1">>, <<"2">>,
      HelpText, StatusText, StartText }

\* captions of an uploaded document: an alias alone, and alias and
\* password with blank lines and padding around them
AliasCaption == Some(<<"k">>)
FullCaption == Some(<<" ", "k", "\n", " ", "\n", "s", " ", "\n">>)

\* the uploaded files: <<file_id, file_name>>, the name optional
NamedFile == <<1, Some(<<"p", ".", "j", "k", "s">>)>>
UnnamedFile == <<2, None>>
Files == {NamedFile, UnnamedFile}

TextMsg(t) == [kind |-> "text", text |-> t, caption |-> None, file_id |-> 0, file_name |-> None]
DocMsg(f, c) == [kind |-> "document", text |-> <<>>, caption |-> c, file_id |-> f[1], file_name |-> f[2]]
OtherMsg == [kind |-> "other", text |-> <<>>, caption |-> None, file_id |-> 0, file_name |-> None]

\* the inbound messages of the model
Messages ==
    {TextMsg(t) : t \in Texts}
    \cup {DocMsg(NamedFile, c) : c \in {None, AliasCaption, FullCaption}}
    \cup {DocMsg(UnnamedFile, FullCaption), OtherMsg}

\* the first whitespace-delimited word of a text
FirstWord(t) ==
    LET u == LStrip(t)
        ends == {i \in 1..Len(u) : IsSpace(u[i])}
    IN IF ends = {} THEN u
       ELSE SubSeq(u, 1, (CHOOSE i \in ends : \A j \in ends : i <= j) - 1)

\* the filter CommandStart(): the message's text begins with the command /start
IsStart(m) == m.kind = "text" /\ FirstWord(m.text) = StartText

\* The router tries the handlers in the order of their registration and
\* runs the first whose filter accepts the message.
HandlerFor(state, m) ==
    IF IsStart(m) THEN "start_handler"
    ELSE IF m.kind = "text" /\ m.text = HelpText THEN "help_handler"
    ELSE IF m.kind = "text" /\ m.text = StatusText THEN "status_handler"
    ELSE IF m.kind = "document" THEN "document_handler"
    ELSE IF state = "waiting_alias" THEN "alias_handler"
    ELSE IF state = "waiting_password" THEN "password_handler"
    ELSE IF state = "waiting_existing_choice" THEN "existing_choice_handler"
    ELSE IF m.kind = "text" THEN "text_handler"
    ELSE "unhandled"

FsmStates == {"idle", "waiting_alias", "waiting_password", "waiting_existing_choice"}

\* HandlerFor, tabulated over the states and the messages of the model
HandlerTable == [st \in FsmStates, m \in Messages |-> HandlerFor(st, m)]

\* str.lower() on the letters that occur; a Cyrillic letter is written as
\* its code point
LowerChar(c) ==
    IF \E i \in 1..26 : UpperCase[i] = c
    THEN LowerCase[CHOOSE i \in 1..26 : UpperCase[i] = c]
    ELSE IF c = "U+0421" THEN "U+0441"
    ELSE IF c = "U+041D" THEN "U+043D"
    ELSE c

Lower(t) == [i \in 1..Len(t) |-> LowerChar(t[i])]

\* the answers existing_choice_handler takes for "reuse" and for "new"
ReuseTokens ==
    { <<"1">>, <<"r", "e", "u", "s", "e">>,
      <<"U+0441", "U+0442", "U+0430", "U+0440", "U+044B", "U+0439">> }
NewTokens ==
    { <<"2">>, <<"n", "e", "w">>,
      <<"U+043D", "U+043E", "U+0432", "U+044B", "U+0439">> }

----------------------------------------------------------------------------
(* State of the bot                                                        *)

\* dataclass FileRequest
FileRequest(file_id, filename, alias, password) ==
    [file_id |-> file_id, filename |-> filename, alias |-> alias, password |-> password]

DefaultFileName == KeystoreWord \o <<".", "j", "k", "s">>

\* the FSM context of a subject with no state and no data
IdleCtx == [state |-> "idle", file_req |-> None, package_name |-> None]

\* the base name a request resolves to (lines 368 and 372 of _process_request)
BaseOfRequest(package_name, file_req) ==
    IF ~IsNone(package_name) THEN sanitize_name(Val(package_name))
    ELSE sanitize_name(splitext_root(Val(file_req).filename))

\* every project a message of the model can name
BaseNames ==
    {sanitize_name(Strip(t)) : t \in {u \in Texts : HandlerFor("idle", TextMsg(u)) = "text_handler"}}
    \cup {sanitize_name(splitext_root(OrDefault(f[2], DefaultFileName))) : f \in Files}

\* the identities the faker profile source returns
Profiles ==
    { DNameInfo(<<"a">>, <<"b">>, <<"u">>, <<"o", ",", "c">>, <<"l">>, <<"s">>, <<"C">>) }

\* what a run of the external tool ends with: exit code 0, a non-zero exit
\* code (subprocess.CalledProcessError), no executable (FileNotFoundError)
ToolResults == {"ok", "nonzero", "missing"}

\* what a call of the message-delivery collaborator ends with
NetResults == {"ok", "error"}

\* what the write of user.txt ends with; the writes of the keystore copy
\* and of info.txt are taken to succeed
WriteResults == {"ok", "oserror"}

\* standard outputs of a successful `keytool -list -v`: with an owner line,
\* without one, and with an owner that holds no KEY=value segment
Listings ==
    { <<"x", "\n">> \o OwnerMarker \o <<" ", "C", "N", "=", "a", " ", "b", ",", " ", "S", "T", "=", "s", "\n">>,
      <<"x", "\n", "y">>,
      OwnerMarker \o <<" ", "z">> }

\* the artifact set a project holds before the service starts: the result
\* of an earlier fresh-name request
PriorDir ==
    [exists |-> TRUE,
     jks |-> Some([src |-> "gen", by |-> 0]),
     pem |-> Some([src |-> "gen", by |-> 0]),
     info |-> Some(format_info(Some(DNameInfo(<<"a">>, <<"b">>, <<>>, <<>>, <<>>, <<>>, <<>>)),
                               DEFAULT_ALIAS, DEFAULT_PASSWORD) \o <<"\n">>),
     user |-> Some([user |-> 1, at |-> 0])]

\* all four artifacts are present
Complete(dir) ==
    dir.exists /\ ~IsNone(dir.jks) /\ ~IsNone(dir.pem) /\ ~IsNone(dir.info) /\ ~IsNone(dir.user)

NoEvent == [subj |-> 0, msg |-> OtherMsg, handler |-> "none", reply |-> "none", run |-> 0]

----------------------------------------------------------------------------
(* _process_request: one run of the pipeline                               *)

(* A run is at one of the awaits of _process_request:                      *)
(*   start     message.answer / send_chat_action         (lines 362-363)   *)
(*   reuse     _safe_edit_status before the reuse check  (line 378)        *)
(*   notice    message.answer of the fallback notice     (line 380)        *)
(*   generate  _safe_edit_status before generation       (line 384)        *)
(*   upload    _safe_edit_status before ingestion        (line 393)        *)
(*   download  _download_file                            (line 399)        *)
(*   deliver   the awaits of delivery                    (lines 423-426)   *)
(*   done      returned                                                    *)
(* The code between two awaits runs without interruption.  The fields      *)
(* calls, fault, archived, delivered, fallback and overlapped record what  *)
(* the run did; the code does not read them.  archived holds the entry the *)
(* run moved the project to and the directory as it was before the move.   *)
NewRun(subj, msg, package_name, file_req, use_existing) ==
    [subj |-> subj, msg |-> msg, package_name |-> package_name,
     file_req |-> file_req, use_existing |-> use_existing,
     pc |-> "start", alias |-> DEFAULT_ALIAS, password |-> DEFAULT_PASSWORD,
     base_name |-> None, dname_info |-> None, info |-> None,
     calls |-> <<>>, outcome |-> "none", fault |-> "none",
     archived |-> None, delivered |-> None,
     fallback |-> FALSE, overlapped |-> FALSE]

\* a result of a step: the two file systems and the run after it
Result(f, o, r) == [fs |-> f, old |-> o, run |-> r]

\* except clauses that report every tool failure alike; C7 tells them from
\* the clauses of _process_request
ExceptionOutcomeAlike(exc) ==
    IF exc \in {"FileNotFoundError", "CalledProcessError"} THEN "generation_failure"
    ELSE "generic"

\* the except clauses of _process_request: the outcome reported for an exception
ExceptionOutcome(exc) ==
    IF exc = "FileNotFoundError" THEN "environment_unavailable"
    ELSE IF exc = "CalledProcessError" THEN "generation_failure"
    ELSE "generic"

\* subprocess.run(check=True): what a failed tool run raises
ToolException(result) ==
    IF result = "missing" THEN "FileNotFoundError" ELSE "CalledProcessError"

\* the run after an exception left the try block: the except clause edits
\* the status message and the function returns
Raised(r, exc, fault) ==
    [r EXCEPT !.pc = "done", !.outcome = ExceptionOutcome(exc), !.fault = fault]

\* _run / subprocess.run: the run after one invocation of keytool
Call(r, cmd, result) ==
    [r EXCEPT !.calls = Append(@, [cmd |-> cmd, alias |-> r.alias,
                                   password |-> r.password, result |-> result])]

\* _write_user_info (line 417), then the await of line 423
UserInfoResults(f, o, r) ==
    LET b == Val(r.base_name) IN
    { IF w = "ok"
      THEN Result([f EXCEPT ![b].user = Some([user |-> r.subj, at |-> r.msg])],
                  o, [r EXCEPT !.pc = "deliver"])
      ELSE Result(f, o, Raised(r, "OSError", "write"))
      : w \in WriteResults }

\* lines 410-416: the summary is formatted and written to info.txt
WriteInfoResults(f, o, r) ==
    LET b == Val(r.base_name)
        info == format_info(r.dname_info, r.alias, r.password)
    IN UserInfoResults([f EXCEPT ![b].info = Some(info \o <<"\n">>)],
                       o, [r EXCEPT !.info = Some(info)])

\* lines 408-409: _read_dname_from_jks, the listing and its decoding
ReadDnameResults(f, o, r) ==
    UNION { IF res = "ok"
            THEN UNION { WriteInfoResults(f, o,
                             [Call(r, "list", res) EXCEPT
                                 !.dname_info = read_dname_from_stdout(stdout)])
                         : stdout \in Listings }
            ELSE {Result(f, o, Raised(Call(r, "list", res), ToolException(res), "tool"))}
            : res \in ToolResults }

\* the condition of line 404: the persisted summary is reused
ReadsPriorInfo(r, dir) ==
    ~IsNone(r.package_name) /\ r.use_existing /\ ~IsNone(dir.info)

\* lines 404-417: the summary is read back, or built and written
SummaryResults(f, o, r) ==
    LET dir == f[Val(r.base_name)] IN
    IF ReadsPriorInfo(r, dir)
    THEN UserInfoResults(f, o, [r EXCEPT !.info = Some(Strip(Val(dir.info)))])
    ELSE IF ~IsNone(r.dname_info) THEN WriteInfoResults(f, o, r)
    ELSE ReadDnameResults(f, o, r)

\* _export_certificate_pem (lines 391 and 402), then the summary
ExportResults(f, o, r) ==
    LET b == Val(r.base_name) IN
    UNION { IF res = "ok"
            THEN SummaryResults([f EXCEPT ![b].pem = Some(Val(f[b].jks))],
                                o, Call(r, "export", res))
            ELSE {Result(f, o, Raised(Call(r, "export", res), ToolException(res), "tool"))}
            : res \in ToolResults }

\* an archive condition that looks at the certificate alone; C21 tells it
\* from the condition of line 385
HasCertificate(dir) == ~IsNone(dir.pem)

\* the condition of lines 385 and 394: something is there to archive
NeedsArchive(dir) == ~IsNone(dir.jks) \/ ~IsNone(dir.pem)

\* lines 385-387 and 394-396: the existing project is moved aside and the
\* project directory made again
ArchiveStep(f, o, r) ==
    LET b == Val(r.base_name) IN
    IF NeedsArchive(f[b])
    THEN LET a == archive_existing_project(b, f, o) IN
         Result([a.fs EXCEPT ![b] = makedirs(@)], a.old,
                [r EXCEPT !.archived =
                    IF IsNone(a.entry) THEN None
                    ELSE Some([entry |-> Val(a.entry), dir |-> f[b]])])
    ELSE Result(f, o, r)

\* lines 385-391 and on, for run number i: archive, _random_dname_info,
\* _generate_jks, then export and summary
GenerateResults(f, o, r, i) ==
    LET a == ArchiveStep(f, o, r)
        b == Val(r.base_name)
    IN UNION { LET r1 == [a.run EXCEPT !.dname_info = Some(profile)] IN
               IF res = "ok"
               THEN ExportResults([a.fs EXCEPT ![b].jks = Some([src |-> "gen", by |-> i])],
                                  a.old, Call(r1, "genkeypair", res))
               ELSE {Result(a.fs, a.old,
                            Raised(Call(r1, "genkeypair", res), ToolException(res), "tool"))}
               : res \in ToolResults, profile \in Profiles }

\* lines 399-402 and on: the download returned; the file is copied into the
\* keystore slot, then export and summary
DownloadResults(f, o, r) ==
    LET b == Val(r.base_name) IN
    UNION { IF net # "ok" THEN {Result(f, o, Raised(r, "Exception", "download"))}
            ELSE ExportResults(
                     [f EXCEPT ![b].jks = Some([src |-> "upload", by |-> Val(r.file_req).file_id])],
                     o, r)
            : net \in NetResults }

\* lines 365-375 and the branch the run takes next: alias, password and
\* base name are resolved and the project directory made
Resolve(r) ==
    LET isPackage == ~IsNone(r.package_name) IN
    [r EXCEPT
        !.alias = IF isPackage THEN DEFAULT_ALIAS
                  ELSE OrDefault(Val(r.file_req).alias, DEFAULT_ALIAS),
        !.password = IF isPackage THEN DEFAULT_PASSWORD
                     ELSE OrDefault(Val(r.file_req).password, DEFAULT_PASSWORD),
        !.base_name = Some(BaseOfRequest(r.package_name, r.file_req)),
        !.pc = IF isPackage /\ r.use_existing THEN "reuse"
               ELSE IF isPackage THEN "generate"
               ELSE "upload"]

\* lines 362-375
StartResults(f, o, r) ==
    { IF net # "ok" THEN Result(f, o, Raised(r, "Exception", "send"))
      ELSE LET r1 == Resolve(r)
               b == Val(r1.base_name)
           IN Result([f EXCEPT ![b] = makedirs(@)], o, r1)
      : net \in NetResults }

\* line 379: both reused artifacts are on disk
ReusableNow(dir) == ~IsNone(dir.jks) /\ ~IsNone(dir.pem)

\* a reuse that never looks for the artifacts; C6 tells it from the check
\* of line 379
ReuseUnchecked(f, o, r) == SummaryResults(f, o, r)

\* lines 379-381 and, when the artifacts are there, 404-417
ReuseResults(f, o, r) ==
    IF ReusableNow(f[Val(r.base_name)]) THEN SummaryResults(f, o, r)
    ELSE {Result(f, o, [r EXCEPT !.pc = "notice", !.fallback = TRUE])}

\* lines 380-384: the notice was sent; use_existing is dropped
NoticeResults(f, o, r) ==
    { IF net # "ok" THEN Result(f, o, Raised(r, "Exception", "send"))
      ELSE Result(f, o, [r EXCEPT !.use_existing = FALSE, !.pc = "generate"])
      : net \in NetResults }

\* lines 394-399: the upload branch up to the await of the download
UploadResults(f, o, r) ==
    LET a == ArchiveStep(f, o, r) IN
    {Result(a.fs, a.old, [a.run EXCEPT !.pc = "download"])}

\* lines 419-426: the two files are read and sent with the summary as the
\* caption.  A file that is gone when the transport reads it fails the
\* send like any transport error.
DeliverResults(f, o, r) ==
    LET dir == f[Val(r.base_name)] IN
    { IF net # "ok" \/ IsNone(dir.jks) \/ IsNone(dir.pem)
      THEN Result(f, o, Raised(r, "Exception", "send"))
      ELSE Result(f, o, [r EXCEPT !.pc = "done", !.outcome = "delivered",
                                  !.delivered = Some([jks |-> Val(dir.jks),
                                                      pem |-> Val(dir.pem),
                                                      caption |-> Val(r.info)])])
      : net \in NetResults }

----------------------------------------------------------------------------
(* Initial state                                                           *)

\* the projects that may hold an artifact set when the service starts
PriorBases == { <<"p">> }

DnIdle == [phase |-> "idle", info |-> EmptyDName, encoded |-> <<>>, decoded |-> None]
SanIdle == [phase |-> "idle", input |-> <<>>, once |-> <<>>, twice |-> <<>>]

Init ==
    /\ fsm = [s \in Subjects |-> IdleCtx]
    /\ conts = [s \in Subjects |-> {}]
    /\ \E P \in SUBSET PriorBases :
          fs = [b \in BaseNames |-> IF b \in P THEN PriorDir ELSE NoDir]
    /\ old = <<>>
    /\ runs = <<>>
    /\ nmsg = 0
    /\ ev = NoEvent
    /\ dn = DnIdle
    /\ san = SanIdle

----------------------------------------------------------------------------
(* The handlers.  One action is one handler call up to its first await     *)
(* that yields to the event loop; the FSM context lives in memory and its  *)
(* calls do not yield.                                                     *)

\* the dispatch of message m of subject s to handler h, answered with reply
\* and having started run number run (0: none)
Accepts(s, m, h) == nmsg < MaxMsgs /\ HandlerTable[fsm[s].state, m] = h

Dispatched(s, m, h, reply, run) ==
    /\ Accepts(s, m, h)
    /\ nmsg' = nmsg + 1
    /\ ev' = [subj |-> s, msg |-> m, handler |-> h, reply |-> reply, run |-> run]

\* a run of the pipeline still inside _process_request for base name b
InFlight(r, b) ==
    r.pc # "done" /\ BaseOfRequest(r.package_name, r.file_req) = b

\* the call of _process_request from a handler: the run starts and is
\* suspended in its first await
Invoke(s, package_name, file_req, use_existing) ==
    LET b == BaseOfRequest(package_name, file_req)
        met == \E j \in 1..Len(runs) : InFlight(runs[j], b)
        r == [NewRun(s, nmsg + 1, package_name, file_req, use_existing)
                 EXCEPT !.overlapped = met]
    IN /\ Len(runs) < MaxRuns
       /\ runs' = Append([j \in 1..Len(runs) |->
                             IF InFlight(runs[j], b)
                             THEN [runs[j] EXCEPT !.overlapped = TRUE]
                             ELSE runs[j]], r)

start_handler(s, m) ==
    /\ Dispatched(s, m, "start_handler", "welcome", 0)
    /\ UNCHANGED <<fsm, conts, fs, old, runs, dn, san>>

help_handler(s, m) ==
    /\ Dispatched(s, m, "help_handler", "help", 0)
    /\ UNCHANGED <<fsm, conts, fs, old, runs, dn, san>>

status_handler(s, m) ==
    /\ Dispatched(s, m, "status_handler", "ok", 0)
    /\ UNCHANGED <<fsm, conts, fs, old, runs, dn, san>>

\* a message no handler accepts is dropped
unhandled(s, m) ==
    /\ Dispatched(s, m, "unhandled", "none", 0)
    /\ UNCHANGED <<fsm, conts, fs, old, runs, dn, san>>

\* lines 475-482 of document_handler: the request built from the upload
DocumentRequest(m) ==
    LET ap == parse_alias_password(OrDefault(m.caption, <<>>)) IN
    FileRequest(m.file_id, OrDefault(m.file_name, DefaultFileName), ap[1], ap[2])

\* `not alias`, `not password`: the optional text is None or empty
Missing(o) == IsNone(o) \/ Val(o) = <<>>

document_handler(s, m) ==
    LET file_req == DocumentRequest(m) IN
    /\ Accepts(s, m, "document_handler")
    /\ IF Missing(file_req.alias)
       THEN /\ Dispatched(s, m, "document_handler", "alias_prompt", 0)
            /\ fsm' = [fsm EXCEPT ![s].state = "waiting_alias",
                                  ![s].file_req = Some(file_req)]
            /\ UNCHANGED <<conts, fs, old, runs, dn, san>>
       ELSE IF Missing(file_req.password)
       THEN /\ Dispatched(s, m, "document_handler", "password_prompt", 0)
            /\ fsm' = [fsm EXCEPT ![s].state = "waiting_password",
                                  ![s].file_req = Some(file_req)]
            /\ UNCHANGED <<conts, fs, old, runs, dn, san>>
       ELSE /\ Dispatched(s, m, "document_handler", "status", Len(runs) + 1)
            /\ Invoke(s, None, Some(file_req), FALSE)
            /\ UNCHANGED <<fsm, conts, fs, old, dn, san>>

\* a blank test that takes only the missing text for blank; C12 tells it
\* from the test of lines 498 and 511
NoText(m) == m.text = <<>>

\* `not message.text or not message.text.strip()`
BlankText(m) == m.text = <<>> \/ Strip(m.text) = <<>>

\* the request with the alias the subject sent
SetAlias(file_req, text) == [file_req EXCEPT !.alias = Some(Strip(text))]

\* the request with the password the subject sent
SetPassword(file_req, text) == [file_req EXCEPT !.password = Some(Strip(text))]

alias_handler(s, m) ==
    /\ Accepts(s, m, "alias_handler")
    /\ IF BlankText(m)
       THEN /\ Dispatched(s, m, "alias_handler", "need_alias", 0)
            /\ UNCHANGED <<fsm, conts, fs, old, runs, dn, san>>
       ELSE /\ Dispatched(s, m, "alias_handler", "password_prompt", 0)
            /\ fsm' = [fsm EXCEPT
                          ![s].file_req = Some(SetAlias(Val(@), m.text)),
                          ![s].state = "waiting_password"]
            /\ UNCHANGED <<conts, fs, old, runs, dn, san>>

password_handler(s, m) ==
    /\ Accepts(s, m, "password_handler")
    /\ IF BlankText(m)
       THEN /\ Dispatched(s, m, "password_handler", "need_password", 0)
            /\ UNCHANGED <<fsm, conts, fs, old, runs, dn, san>>
       ELSE LET file_req == SetPassword(Val(fsm[s].file_req), m.text) IN
            /\ Dispatched(s, m, "password_handler", "status", Len(runs) + 1)
            /\ fsm' = [fsm EXCEPT ![s] = IdleCtx]
            /\ Invoke(s, None, Some(file_req), FALSE)
            /\ UNCHANGED <<conts, fs, old, dn, san>>

existing_choice_handler(s, m) ==
    LET choice == Lower(Strip(m.text))
        package_name == fsm[s].package_name
    IN
    /\ Accepts(s, m, "existing_choice_handler")
    /\ IF m.text = <<>>
       THEN /\ Dispatched(s, m, "existing_choice_handler", "answer_1_or_2", 0)
            /\ UNCHANGED <<fsm, conts, fs, old, runs, dn, san>>
       ELSE IF choice \notin ReuseTokens \cup NewTokens
       THEN /\ Dispatched(s, m, "existing_choice_handler", "answer_1_or_2_explained", 0)
            /\ UNCHANGED <<fsm, conts, fs, old, runs, dn, san>>
       ELSE IF Missing(package_name)
       THEN /\ Dispatched(s, m, "existing_choice_handler", "no_package_name", 0)
            /\ fsm' = [fsm EXCEPT ![s] = IdleCtx]
            /\ UNCHANGED <<conts, fs, old, runs, dn, san>>
       ELSE /\ Dispatched(s, m, "existing_choice_handler", "status", Len(runs) + 1)
            /\ fsm' = [fsm EXCEPT ![s] = IdleCtx]
            /\ Invoke(s, package_name, None, choice \in ReuseTokens)
            /\ UNCHANGED <<conts, fs, old, dn, san>>

\* an existence test that looks at the directory alone; C11 tells it from
\* the test of line 548
HasDir(dir) == dir.exists

\* line 548 of text_handler: the project already has keystore and certificate
HasKey(dir) == ~IsNone(dir.jks) /\ ~IsNone(dir.pem)

\* text_handler up to its first await: the answer of line 544 or 549, or
\* the first await of _process_request
text_handler(s, m) ==
    LET package_name == Strip(m.text) IN
    /\ Accepts(s, m, "text_handler")
    /\ IF package_name = <<>>
       THEN /\ Dispatched(s, m, "text_handler", "need_name", 0)
            /\ UNCHANGED <<fsm, conts, fs, old, runs, dn, san>>
       ELSE IF HasKey(fs[sanitize_name(package_name)])
       THEN /\ Dispatched(s, m, "text_handler", "exists_prompt", 0)
            /\ conts' = [conts EXCEPT ![s] = @ \cup {package_name}]
            /\ UNCHANGED <<fsm, fs, old, runs, dn, san>>
       ELSE /\ Dispatched(s, m, "text_handler", "status", Len(runs) + 1)
            /\ Invoke(s, Some(package_name), None, FALSE)
            /\ UNCHANGED <<fsm, conts, fs, old, dn, san>>

\* text_handler after the answer of line 549 returned: lines 554-556; when
\* the answer raised, the handler ends there
text_handler_resume(s, package_name) ==
    /\ package_name \in conts[s]
    /\ conts' = [conts EXCEPT ![s] = @ \ {package_name}]
    /\ \E net \in NetResults :
          fsm' = IF net = "ok"
                 THEN [fsm EXCEPT ![s].state = "waiting_existing_choice",
                                  ![s].package_name = Some(package_name)]
                 ELSE fsm
    /\ UNCHANGED <<fs, old, runs, nmsg, ev, dn, san>>

----------------------------------------------------------------------------
(* The steps of a run                                                      *)

\* run number i takes one of the results of its step
Takes(i, results) ==
    /\ \E res \in results :
          /\ fs' = res.fs
          /\ old' = res.old
          /\ runs' = [runs EXCEPT ![i] = res.run]
    /\ UNCHANGED <<fsm, conts, nmsg, ev, dn, san>>

RunStart(i) == runs[i].pc = "start" /\ Takes(i, StartResults(fs, old, runs[i]))
RunReuse(i) == runs[i].pc = "reuse" /\ Takes(i, ReuseResults(fs, old, runs[i]))
RunNotice(i) == runs[i].pc = "notice" /\ Takes(i, NoticeResults(fs, old, runs[i]))
RunGenerate(i) == runs[i].pc = "generate" /\ Takes(i, GenerateResults(fs, old, runs[i], i))
RunUpload(i) == runs[i].pc = "upload" /\ Takes(i, UploadResults(fs, old, runs[i]))
RunDownload(i) == runs[i].pc = "download" /\ Takes(i, DownloadResults(fs, old, runs[i]))
RunDeliver(i) == runs[i].pc = "deliver" /\ Takes(i, DeliverResults(fs, old, runs[i]))

Next ==
    \/ \E s \in Subjects, m \in Messages : start_handler(s, m)
    \/ \E s \in Subjects, m \in Messages : help_handler(s, m)
    \/ \E s \in Subjects, m \in Messages : status_handler(s, m)
    \/ \E s \in Subjects, m \in Messages : document_handler(s, m)
    \/ \E s \in Subjects, m \in Messages : alias_handler(s, m)
    \/ \E s \in Subjects, m \in Messages : password_handler(s, m)
    \/ \E s \in Subjects, m \in Messages : existing_choice_handler(s, m)
    \/ \E s \in Subjects, m \in Messages : text_handler(s, m)
    \/ \E s \in Subjects, m \in Messages : unhandled(s, m)
    \/ \E s \in Subjects : \E package_name \in conts[s] : text_handler_resume(s, package_name)
    \/ \E i \in 1..Len(runs) : RunStart(i)
    \/ \E i \in 1..Len(runs) : RunReuse(i)
    \/ \E i \in 1..Len(runs) : RunNotice(i)
    \/ \E i \in 1..Len(runs) : RunGenerate(i)
    \/ \E i \in 1..Len(runs) : RunUpload(i)
    \/ \E i \in 1..Len(runs) : RunDownload(i)
    \/ \E i \in 1..Len(runs) : RunDeliver(i)

Spec == Init /\ [][Next]_vars

----------------------------------------------------------------------------
(* The DN codec as a state machine: an identity is drawn, encoded by       *)
(* _random_dname, and decoded by _read_dname_from_jks from a listing whose *)
(* owner line carries the encoding.                                        *)

\* all texts over the characters cs of length at most n
RECURSIVE TextsUpTo(_, _)
TextsUpTo(cs, n) ==
    IF n = 0 THEN {<<>>}
    ELSE LET shorter == TextsUpTo(cs, n - 1) IN
         shorter \cup {Append(t, c) : t \in shorter, c \in cs}

\* the characters of an identity value: a letter and the two characters
\* the encoding escapes
DnChars == {"a", ",", "\\"}

\* the identities drawn: names of at most one character, unit and state of
\* up to MaxLen characters, the other fields fixed
Identities ==
    { DNameInfo(fn, ln, ou, <<"o">>, <<>>, st, <<"C">>) :
        fn \in TextsUpTo(DnChars, 1), ln \in TextsUpTo(DnChars, 1),
        ou \in TextsUpTo(DnChars, MaxLen), st \in TextsUpTo(DnChars, MaxLen) }

\* the botVars of a service that received nothing
BotIdle ==
    /\ fsm = [s \in Subjects |-> IdleCtx]
    /\ conts = [s \in Subjects |-> {}]
    /\ fs = [b \in BaseNames |-> NoDir]
    /\ old = <<>>
    /\ runs = <<>>
    /\ nmsg = 0
    /\ ev = NoEvent

InitDN ==
    /\ BotIdle
    /\ san = SanIdle
    /\ \E info \in Identities :
          dn = [phase |-> "input", info |-> info, encoded |-> <<>>, decoded |-> None]

\* the standard output of a listing of a keystore whose owner is `owner`
ListingOf(owner) ==
    <<"A", "l", "i", "a", "s", "\n">> \o OwnerMarker \o <<" ">> \o owner \o <<"\n">>

DnEncode ==
    /\ dn.phase = "input"
    /\ dn' = [dn EXCEPT !.phase = "encoded", !.encoded = random_dname(dn.info)]
    /\ UNCHANGED <<fsm, conts, fs, old, runs, nmsg, ev, san>>

DnDecode ==
    /\ dn.phase = "encoded"
    /\ dn' = [dn EXCEPT !.phase = "decoded",
                        !.decoded = read_dname_from_stdout(ListingOf(dn.encoded))]
    /\ UNCHANGED <<fsm, conts, fs, old, runs, nmsg, ev, san>>

NextDN == DnEncode \/ DnDecode

SpecDN == InitDN /\ [][NextDN]_vars

----------------------------------------------------------------------------
(* _sanitize_name as a state machine: a text is drawn and sanitized twice  *)

\* the characters of a name: kept ones, blanks and ones to be replaced
SanChars == {"a", ".", "_", "-", " ", "/"}

InitSan ==
    /\ BotIdle
    /\ dn = DnIdle
    /\ \E t \in TextsUpTo(SanChars, MaxSanLen) :
          san = [phase |-> "input", input |-> t, once |-> <<>>, twice |-> <<>>]

SanOnce ==
    /\ san.phase = "input"
    /\ san' = [san EXCEPT !.phase = "once", !.once = sanitize_name(san.input)]
    /\ UNCHANGED <<fsm, conts, fs, old, runs, nmsg, ev, dn>>

SanTwice ==
    /\ san.phase = "once"
    /\ san' = [san EXCEPT !.phase = "twice", !.twice = sanitize_name(san.once)]
    /\ UNCHANGED <<fsm, conts, fs, old, runs, nmsg, ev, dn>>

NextSan == SanOnce \/ SanTwice

SpecSan == InitSan /\ [][NextSan]_vars

----------------------------------------------------------------------------
(* Properties                                                              *)

\* every invocation of the tool in calls succeeded
AllOk(calls) == \A k \in 1..Len(calls) : calls[k].result = "ok"

\* the commands of calls, in order
Cmds(calls) == [k \in 1..Len(calls) |-> calls[k].cmd]

\* the run is over and did not deliver
Failed(r) == r.pc = "done" /\ r.outcome # "delivered"

\* the keystore run number i, being r, writes
KeystoreOf(i, r) ==
    IF IsNone(r.package_name)
    THEN [src |-> "upload", by |-> Val(r.file_req).file_id]
    ELSE [src |-> "gen", by |-> i]

\* dir holds the keystore, the certificate and the summary run number i wrote
NewKeysOf(i, r, dir) ==
    /\ dir.exists
    /\ dir.jks = Some(KeystoreOf(i, r))
    /\ dir.pem = Some(KeystoreOf(i, r))
    /\ ~IsNone(r.info)
    /\ dir.info = Some(Val(r.info) \o <<"\n">>)

\* dir holds the requester metadata run r wrote
NewUserOf(r, dir) == dir.user = Some([user |-> r.subj, at |-> r.msg])

\* the entry run r archived holds what the project held before the move
OldKept(r, o) ==
    /\ Val(r.archived).entry \in DOMAIN o
    /\ o[Val(r.archived).entry] = Val(r.archived).dir

\* a text message that is not blank
NonEmptyText(m) == m.kind = "text" /\ Strip(m.text) # <<>>

(* C1: alias, then password, then one run.  In every dispatch of a message *)
(* m of a subject: an idle subject's upload without caption is answered by *)
(* the alias prompt and starts no run; in waiting_alias a non-empty text   *)
(* is stored as the alias and answered by the password prompt, and starts  *)
(* no run; in waiting_password a non-empty text starts exactly one run,    *)
(* whose request carries the stored alias and that text as the password.   *)
C1_AliasThenPassword ==
    [][nmsg' = nmsg + 1 =>
         LET s == ev'.subj
             m == ev'.msg
             ctx == fsm[s]
         IN
         /\ (ctx.state = "idle" /\ m.kind = "document" /\ IsNone(m.caption)) =>
               /\ ev'.reply = "alias_prompt"
               /\ fsm'[s].state = "waiting_alias"
               /\ runs' = runs
         /\ (ctx.state = "waiting_alias" /\ NonEmptyText(m)) =>
               /\ ev'.reply = "password_prompt"
               /\ fsm'[s].state = "waiting_password"
               /\ fsm'[s].file_req =
                     Some([Val(ctx.file_req) EXCEPT !.alias = Some(Strip(m.text))])
               /\ runs' = runs
         /\ (ctx.state = "waiting_password" /\ NonEmptyText(m)) =>
               /\ Len(runs') = Len(runs) + 1
               /\ runs'[Len(runs')].file_req =
                     Some([Val(ctx.file_req) EXCEPT !.password = Some(Strip(m.text))])
               /\ fsm'[s] = IdleCtx
    ]_vars

\* run number i ends in this step, having archived a complete project, with
\* no other run for its base name met and no tool invocation failed
C2_Regenerated(i) ==
    LET r == runs'[i] IN
    /\ runs[i].pc # "done"
    /\ r.pc = "done"
    /\ ~IsNone(r.archived)
    /\ Complete(Val(r.archived).dir)
    /\ ~r.overlapped
    /\ AllOk(r.calls)

InArchiveThenWrite(r) == r.pc = "download"

(* C3: runs for one base name are serialized.  No two runs for the same    *)
(* base name are between archive step and writes at once, and while a run  *)
(* is there, no step of another run changes its project directory.         *)
C3_Serialized ==
    /\ [](\A i, j \in 1..Len(runs) :
             (i # j /\ InArchiveThenWrite(runs[i]) /\ InArchiveThenWrite(runs[j]))
                => runs[i].base_name # runs[j].base_name)
    /\ [][\A i \in 1..Len(runs) :
             (InArchiveThenWrite(runs[i]) /\ InArchiveThenWrite(runs'[i]))
                => fs'[Val(runs[i].base_name)] = fs[Val(runs[i].base_name)]
       ]_vars

(* C4: DN round trip.  Decoding the encoding of an identity yields the     *)
(* identity: whenever the codec has decoded, the decoded identity is the   *)
(* one that was encoded.                                                   *)
C4_RoundTrip == dn.phase = "decoded" => dn.decoded = Some(dn.info)

(* C5: reuse path.  When a run that was told to reuse finds keystore and   *)
(* certificate, its step invokes neither genkeypair nor export, leaves     *)
(* keystore, certificate and persisted summary as they are, and takes the  *)
(* persisted summary (without its final line break) as the summary; what a *)
(* run delivers as the summary is the summary it took.                     *)
C5_ReusePath ==
    /\ [][\A i \in 1..Len(runs) :
             LET r == runs[i]
                 r2 == runs'[i]
                 b == Val(r.base_name)
             IN (r.pc = "reuse" /\ r2.pc # "reuse" /\ ReusableNow(fs[b])) =>
                   /\ \A k \in 1..Len(r2.calls) :
                         r2.calls[k].cmd \notin {"genkeypair", "export"}
                   /\ fs'[b].jks = fs[b].jks
                   /\ fs'[b].pem = fs[b].pem
                   /\ fs'[b].info = fs[b].info
                   /\ ~IsNone(fs[b].info)
                   /\ r2.info = Some(Strip(Val(fs[b].info)))
       ]_vars
    /\ [](\A i \in 1..Len(runs) :
             ~IsNone(runs[i].delivered) =>
                Val(runs[i].delivered).caption = Val(runs[i].info))

(* C6: reuse fallback.  A run told to reuse that finds keystore or         *)
(* certificate missing ends in no error for that: it goes on to the notice *)
(* and, the notice sent, to generation without reuse.  Its generation step *)
(* archives what the project still holds, invokes genkeypair first and,    *)
(* when no tool invocation and no write fails, leaves a new keystore,      *)
(* certificate and summary and goes on to delivery.  Over, such a run has  *)
(* delivered unless a tool invocation, a write or a send failed.           *)
C6_ReuseFallback ==
    /\ [][\A i \in 1..Len(runs) :
             LET r == runs[i]
                 r2 == runs'[i]
                 b == Val(r.base_name)
             IN
             /\ (r.pc = "reuse" /\ r2.pc # "reuse" /\ ~ReusableNow(fs[b])) =>
                   /\ r2.pc = "notice"
                   /\ r2.fallback
                   /\ r2.outcome = "none"
                   /\ r2.calls = <<>>
                   /\ fs' = fs
                   /\ old' = old
             /\ (r.pc = "notice" /\ r2.pc # "notice") =>
                   \/ r2.pc = "generate" /\ ~r2.use_existing /\ r2.outcome = "none"
                   \/ r2.pc = "done" /\ r2.fault = "send"
             /\ (r.fallback /\ r.pc = "generate" /\ r2.pc # "generate") =>
                   /\ NeedsArchive(fs[b]) =>
                         /\ ~IsNone(r2.archived)
                         /\ Val(r2.archived).dir = fs[b]
                         /\ OldKept(r2, old')
                   /\ r2.calls # <<>>
                   /\ r2.calls[1].cmd = "genkeypair"
                   /\ (AllOk(r2.calls) /\ r2.fault # "write") =>
                         /\ r2.pc = "deliver"
                         /\ Cmds(r2.calls) = <<"genkeypair", "export">>
                         /\ NewKeysOf(i, r2, fs'[b])
       ]_vars
    /\ [](\A i \in 1..Len(runs) :
             (runs[i].fallback /\ Failed(runs[i])) =>
                \/ ~AllOk(runs[i].calls)
                \/ runs[i].fault \in {"write", "send"})

\* a run that fell back from reuse regenerated and delivered
C6_Witness ==
    \E i \in 1..Len(runs) :
       /\ runs[i].fallback
       /\ runs[i].outcome = "delivered"
       /\ Cmds(runs[i].calls) = <<"genkeypair", "export">>
       /\ Val(runs[i].delivered).jks = [src |-> "gen", by |-> i]

\* what C7 says of one run
C7_Run(r) ==
    LET n == Len(r.calls) IN
    /\ \A k \in 1..(n - 1) : r.calls[k].result = "ok"
    /\ \A k, l \in 1..n : k # l => r.calls[k].cmd # r.calls[l].cmd
    /\ (n > 0 /\ r.calls[n].result # "ok") =>
          /\ r.pc = "done"
          /\ r.fault = "tool"
          /\ r.outcome = IF r.calls[n].result = "missing"
                         THEN "environment_unavailable" ELSE "generation_failure"
          /\ IsNone(r.info)
          /\ IsNone(r.delivered)
    /\ r.outcome = "environment_unavailable" => (n > 0 /\ r.calls[n].result = "missing")
    /\ r.outcome = "generation_failure" => (n > 0 /\ r.calls[n].result = "nonzero")
    /\ r.fault \in {"download", "write", "send"} => r.outcome = "generic"
    /\ r.pc = "done" <=> r.outcome # "none"
    /\ r.outcome = "delivered" <=> ~IsNone(r.delivered)

(* C7: failure semantics.  In every run the first failed tool invocation   *)
(* is the last invocation: the run is over, has written no summary and     *)
(* delivered nothing, no command was invoked twice, and the outcome is     *)
(* environment_unavailable exactly when the tool was missing,              *)
(* generation_failure exactly when it exited non-zero; a failed download,  *)
(* write or send ends in the generic outcome; a run is over exactly when   *)
(* it has an outcome, and a run that is over never changes again.          *)
C7_FailureSemantics ==
    /\ [](\A i \in 1..Len(runs) : C7_Run(runs[i]))
    /\ [][\A i \in 1..Len(runs) : runs[i].pc = "done" => runs'[i] = runs[i]]_vars

\* a run whose export found no tool, after a genkeypair that succeeded, and
\* a run whose tool exited non-zero
C7_Witness ==
    /\ \E i \in 1..Len(runs) :
          /\ Cmds(runs[i].calls) = <<"genkeypair", "export">>
          /\ runs[i].calls[2].result = "missing"
          /\ runs[i].outcome = "environment_unavailable"
    /\ \E i \in 1..Len(runs) :
          /\ runs[i].calls # <<>>
          /\ runs[i].outcome = "generation_failure"

(* C8: archived artifacts survive failures.  A run that archived a project *)
(* and is over without having delivered has the project's old content,     *)
(* unchanged, in its archive entry; and no step removes or changes an      *)
(* archive entry that is there.                                            *)
C8_ArchiveSurvivesFailure ==
    /\ [](\A i \in 1..Len(runs) :
             (Failed(runs[i]) /\ ~IsNone(runs[i].archived)) => OldKept(runs[i], old))
    /\ [][\A e \in DOMAIN old : e \in DOMAIN old' /\ old'[e] = old[e]]_vars

\* a run failed after it archived a complete project, and a later run
\* archived the same base name again
C8_Witness ==
    \E i, j \in 1..Len(runs) :
       /\ i # j
       /\ Failed(runs[i])
       /\ ~IsNone(runs[i].archived)
       /\ Complete(Val(runs[i].archived).dir)
       /\ OldKept(runs[i], old)
       /\ ~IsNone(runs[j].archived)
       /\ runs[j].base_name = runs[i].base_name
       /\ Val(runs[j].archived).entry # Val(runs[i].archived).entry

(* C9: artifact-set invariant.  A project for whose base name no run is in *)
(* progress has no directory or a directory with all four artifacts.       *)
C9_ArtifactSet ==
    \A b \in BaseNames :
       (\A i \in 1..Len(runs) : ~InFlight(runs[i], b)) =>
          (~fs[b].exists \/ Complete(fs[b]))

\* an upload whose caption holds two non-blank lines
TwoLineCaption(m) ==
    /\ m.kind = "document"
    /\ ~IsNone(m.caption)
    /\ Len(NonBlankLines(SplitLines(Val(m.caption)))) >= 2

\* what C10 says of one run for an upload
C10_Run(r) ==
    IsNone(r.package_name) =>
       /\ \E n \in 0..2 : Cmds(r.calls) = SubSeq(<<"export", "list">>, 1, n)
       /\ \A k \in 1..Len(r.calls) :
             /\ r.calls[k].alias = r.alias
             /\ r.calls[k].password = r.password
       /\ ~IsNone(r.base_name) =>
             /\ r.alias = OrDefault(Val(r.file_req).alias, DEFAULT_ALIAS)
             /\ r.password = OrDefault(Val(r.file_req).password, DEFAULT_PASSWORD)
       /\ ~IsNone(r.delivered) =>
             /\ Cmds(r.calls) = <<"export", "list">>
             /\ AllOk(r.calls)

(* C10: two-line caption.  The dispatch of an upload whose caption holds   *)
(* two non-blank lines prompts for nothing, leaves the subject's state as  *)
(* it is and starts exactly one run, for that file, with the first line    *)
(* trimmed as the alias and the second trimmed as the password; a run for  *)
(* an upload invokes the tool with that alias and password, export first   *)
(* and the listing second, each at most once, and both before it delivers. *)
C10_CaptionShortCircuit ==
    /\ [][(nmsg' = nmsg + 1 /\ TwoLineCaption(ev'.msg)) =>
             LET m == ev'.msg
                 lines == NonBlankLines(SplitLines(Val(m.caption)))
                 r == runs'[Len(runs')]
             IN
             /\ ev'.handler = "document_handler"
             /\ ev'.reply = "status"
             /\ fsm' = fsm
             /\ Len(runs') = Len(runs) + 1
             /\ ev'.run = Len(runs')
             /\ \A j \in 1..Len(runs) : [runs'[j] EXCEPT !.overlapped = FALSE]
                                        = [runs[j] EXCEPT !.overlapped = FALSE]
             /\ r.pc = "start"
             /\ r.calls = <<>>
             /\ IsNone(r.package_name)
             /\ Val(r.file_req).file_id = m.file_id
             /\ Val(r.file_req).alias = Some(Strip(lines[1]))
             /\ Val(r.file_req).password = Some(Strip(lines[2]))
             /\ m.caption = FullCaption =>
                   /\ Val(r.file_req).alias = Some(<<"k">>)
                   /\ Val(r.file_req).password = Some(<<"s">>)
       ]_vars
    /\ [](\A i \in 1..Len(runs) : C10_Run(runs[i]))

\* the run of an upload with a two-line caption delivered the uploaded
\* keystore under the alias and password of the caption
C10_Witness ==
    \E i \in 1..Len(runs) :
       /\ IsNone(runs[i].package_name)
       /\ ev.handler = "document_handler"
       /\ ev.run = i
       /\ TwoLineCaption(ev.msg)
       /\ runs[i].outcome = "delivered"
       /\ runs[i].alias = <<"k">>
       /\ runs[i].password = <<"s">>
       /\ Cmds(runs[i].calls) = <<"export", "list">>
       /\ Val(runs[i].delivered).jks = [src |-> "upload", by |-> ev.msg.file_id]

\* the labels of a summary, in the order _format_info writes them
SummaryLabels ==
    <<"[key data]:", "First name: ", "Last name: ", "Organization unit: ",
      "Organization: ", "City: ", "State: ", "Country code: ", "Alias: ", "Password: ">>

IsSummaryLabel(x) == \E k \in 1..Len(SummaryLabels) : SummaryLabels[k] = x

\* the two lines a summary with the default alias and password ends with
DefaultCredentialLines ==
    <<"\n", "\n", "Alias: ", "k", "e", "y", "0",
      "\n", "Password: ", "1", "2", "3", "4", "5", "6", "7", "8", "9", "0">>

\* text ends with tail
EndsWith(text, tail) ==
    /\ Len(text) >= Len(tail)
    /\ SubSeq(text, Len(text) - Len(tail) + 1, Len(text)) = tail

\* what C11 says of one run for a package name that was not told to reuse
C11_Run(r) ==
    (~IsNone(r.package_name) /\ ~r.use_existing /\ ~r.fallback) =>
       /\ \E n \in 0..2 : Cmds(r.calls) = SubSeq(<<"genkeypair", "export">>, 1, n)
       /\ \A k \in 1..Len(r.calls) :
             /\ r.calls[k].alias = <<"k", "e", "y", "0">>
             /\ r.calls[k].password = <<"1", "2", "3", "4", "5", "6", "7", "8", "9", "0">>
       /\ ~IsNone(r.info) =>
             /\ Cmds(r.calls) = <<"genkeypair", "export">>
             /\ AllOk(r.calls)
             /\ SelectSeq(Val(r.info), IsSummaryLabel) = SummaryLabels
             /\ EndsWith(Val(r.info), DefaultCredentialLines)
       /\ ~IsNone(r.delivered) =>
             /\ Cmds(r.calls) = <<"genkeypair", "export">>
             /\ AllOk(r.calls)
             /\ DOMAIN Val(r.delivered) = {"jks", "pem", "caption"}
             /\ Val(r.delivered).caption = Val(r.info)

(* C11: fresh name end to end.  The dispatch of a non-blank text of an     *)
(* idle subject to text_handler, the named project holding neither         *)
(* keystore nor certificate, asks nothing and starts exactly one run for   *)
(* that name without reuse.  Such a run invokes genkeypair and then        *)
(* export, each at most once and with alias key0 and password 1234567890;  *)
(* when no invocation fails both were invoked before the generation step   *)
(* ends; its summary holds the seven identity lines and ends with the      *)
(* lines of alias key0 and password 1234567890; and it delivers keystore   *)
(* and certificate, with that summary, only after both invocations         *)
(* succeeded.                                                              *)
C11_FreshName ==
    /\ [][(/\ nmsg' = nmsg + 1
           /\ ev'.handler = "text_handler"
           /\ fsm[ev'.subj].state = "idle"
           /\ Strip(ev'.msg.text) # <<>>
           /\ IsNone(fs[sanitize_name(Strip(ev'.msg.text))].jks)
           /\ IsNone(fs[sanitize_name(Strip(ev'.msg.text))].pem)) =>
             LET r == runs'[Len(runs')] IN
             /\ ev'.reply = "status"
             /\ fsm' = fsm
             /\ conts' = conts
             /\ Len(runs') = Len(runs) + 1
             /\ r.package_name = Some(Strip(ev'.msg.text))
             /\ ~r.use_existing
             /\ r.pc = "start"
             /\ r.calls = <<>>
       ]_vars
    /\ [][\A i \in 1..Len(runs) :
             (/\ runs[i].pc = "generate"
              /\ runs'[i].pc # "generate"
              /\ AllOk(runs'[i].calls)) =>
                Cmds(runs'[i].calls) = <<"genkeypair", "export">>
       ]_vars
    /\ [](\A i \in 1..Len(runs) : C11_Run(runs[i]))

\* a run for a fresh name, started by text_handler, delivered the keystore
\* it generated
C11_Witness ==
    \E i \in 1..Len(runs) :
       /\ ev.handler = "text_handler"
       /\ ev.run = i
       /\ IsNone(runs[i].archived)
       /\ runs[i].outcome = "delivered"
       /\ Cmds(runs[i].calls) = <<"genkeypair", "export">>
       /\ Val(runs[i].delivered).jks = [src |-> "gen", by |-> i]
       /\ EndsWith(Val(runs[i].delivered).caption, DefaultCredentialLines)

\* a message that is no upload and whose text is missing, empty or blank
BlankInput(m) == m.kind # "document" /\ Strip(m.text) = <<>>

\* the corrective prompts of a waiting state
CorrectivePrompts(state) ==
    IF state = "waiting_alias" THEN {"need_alias"}
    ELSE IF state = "waiting_password" THEN {"need_password"}
    ELSE {"answer_1_or_2", "answer_1_or_2_explained"}

(* C12: blank input, no transition.  The dispatch of a message without     *)
(* text, or with blank text, of a subject in waiting_alias,                *)
(* waiting_password or waiting_existing_choice leaves the state and the    *)
(* pending data of every subject as they are, is answered by the           *)
(* corrective prompt of that state, and starts no run.                     *)
C12_BlankInput ==
    [][(/\ nmsg' = nmsg + 1
        /\ fsm[ev'.subj].state # "idle"
        /\ BlankInput(ev'.msg)) =>
          /\ fsm' = fsm
          /\ runs' = runs
          /\ conts' = conts
          /\ ev'.run = 0
          /\ ev'.reply \in CorrectivePrompts(fsm[ev'.subj].state)
    ]_vars

\* a blank text was sent for the password, after the alias was taken, and
\* the subject still waits for the password with the request pending
C12_Witness ==
    /\ ev.handler = "password_handler"
    /\ ev.msg.text = <<" ">>
    /\ ev.reply = "need_password"
    /\ fsm[ev.subj].state = "waiting_password"
    /\ ~IsNone(fsm[ev.subj].file_req)
    /\ Val(fsm[ev.subj].file_req).alias = Some(<<"1">>)
    /\ runs = <<>>

\* the handler of the pending field of a waiting state
PendingFieldHandler(state) ==
    IF state = "waiting_alias" THEN "alias_handler"
    ELSE IF state = "waiting_password" THEN "password_handler"
    ELSE "existing_choice_handler"

(* C13: a text goes to the pending field.  The dispatch of a non-empty     *)
(* text of a subject in waiting_alias, waiting_password or                 *)
(* waiting_existing_choice runs the handler of that state's pending field  *)
(* and no other: the text is stored as the alias, or starts the run as the *)
(* password, or is read as the reuse choice.                               *)
C13_PendingFieldText ==
    [][(/\ nmsg' = nmsg + 1
        /\ fsm[ev'.subj].state # "idle"
        /\ NonEmptyText(ev'.msg)) =>
          LET s == ev'.subj
              m == ev'.msg
              ctx == fsm[s]
          IN
          /\ ev'.handler = PendingFieldHandler(ctx.state)
          /\ ctx.state = "waiting_alias" =>
                Val(fsm'[s].file_req).alias = Some(Strip(m.text))
          /\ ctx.state = "waiting_password" =>
                /\ Len(runs') = Len(runs) + 1
                /\ Val(runs'[Len(runs')].file_req).password = Some(Strip(m.text))
          /\ ctx.state = "waiting_existing_choice" =>
                ev'.reply \in {"status", "answer_1_or_2_explained", "no_package_name"}
    ]_vars

(* C14: the reuse choice.  The dispatch of a text message of a subject in  *)
(* waiting_existing_choice whose text, trimmed and lower-cased, is none of *)
(* the six tokens is answered by the re-prompt and leaves state and        *)
(* pending package name as they are; one whose text is a token starts      *)
(* exactly one run for the pending package name, with reuse exactly for    *)
(* the three reuse tokens, and leaves the subject idle.                    *)
C14_ReuseChoice ==
    [][(/\ nmsg' = nmsg + 1
        /\ fsm[ev'.subj].state = "waiting_existing_choice"
        /\ ev'.msg.kind = "text") =>
          LET s == ev'.subj
              choice == Lower(Strip(ev'.msg.text))
          IN
          IF choice \in ReuseTokens \cup NewTokens
          THEN /\ Len(runs') = Len(runs) + 1
               /\ runs'[Len(runs')].package_name = fsm[s].package_name
               /\ runs'[Len(runs')].use_existing = (choice \in ReuseTokens)
               /\ ev'.run = Len(runs')
               /\ fsm'[s] = IdleCtx
          ELSE /\ ev'.reply \in {"answer_1_or_2", "answer_1_or_2_explained"}
               /\ fsm' = fsm
               /\ runs' = runs
    ]_vars

\* the summary whose seven identity fields are all rendered as "-"
DashSummary(alias, password) ==
    <<"[key data]:", "\n", "First name: ", "-", "\n", "Last name: ", "-",
      "\n", "Organization unit: ", "-", "\n", "Organization: ", "-",
      "\n", "City: ", "-", "\n", "State: ", "-", "\n", "Country code: ", "-",
      "\n", "\n", "Alias: ">> \o alias \o <<"\n", "Password: ">> \o password

\* the listing has a line that, trimmed, begins with the owner marker, and
\* what follows the marker holds a KEY=value segment
HasOwnerSegment(stdout) ==
    \E k \in 1..Len(SplitLines(stdout)) :
       LET line == Strip(SplitLines(stdout)[k]) IN
       /\ StartsWith(line, OwnerMarker)
       /\ \E j \in (Len(OwnerMarker) + 1)..Len(line) : line[j] = "="

\* what C15 says of one run whose listing succeeded and gave no identity
C15_Run(r) ==
    (/\ r.calls # <<>>
     /\ r.calls[Len(r.calls)].cmd = "list"
     /\ r.calls[Len(r.calls)].result = "ok"
     /\ IsNone(r.dname_info)) =>
       /\ r.info = Some(DashSummary(r.alias, r.password))
       /\ r.pc \in {"deliver", "done"}
       /\ r.outcome \notin {"generation_failure", "environment_unavailable"}
       /\ Failed(r) => r.fault \in {"write", "send"}
       /\ ~IsNone(r.delivered) => Val(r.delivered).caption = DashSummary(r.alias, r.password)

(* C15: extraction degradation.  A listing without an owner line, or whose *)
(* owner holds no KEY=value segment, decodes to no identity and not to a   *)
(* failure; a run whose listing succeeded and gave no identity has the     *)
(* summary with every identity field rendered as "-", has gone on to       *)
(* delivery, and has delivered with that summary unless a write or a send  *)
(* failed.                                                                 *)
C15_ExtractionDegrades ==
    /\ \A stdout \in Listings :
          ~HasOwnerSegment(stdout) => IsNone(read_dname_from_stdout(stdout))
    /\ \E stdout \in Listings : ~HasOwnerSegment(stdout)
    /\ \A i \in 1..Len(runs) : C15_Run(runs[i])

\* the run of an upload whose listing gave no identity delivered keystore
\* and certificate with the all-dash summary
C15_Witness ==
    \E i \in 1..Len(runs) :
       /\ Cmds(runs[i].calls) = <<"export", "list">>
       /\ AllOk(runs[i].calls)
       /\ IsNone(runs[i].dname_info)
       /\ runs[i].outcome = "delivered"
       /\ Val(runs[i].delivered).caption = DashSummary(<<"k">>, <<"s">>)

----------------------------------------------------------------------------
(* _archive_existing_project as a state machine: projects are made and     *)
(* archived in any order.  The base names are such that the entry of one   *)
(* is a candidate entry of the other.                                      *)

ArchBases == { <<"p">>, <<"p", "-", "1">> }

InitArch ==
    /\ fsm = [s \in Subjects |-> IdleCtx]
    /\ conts = [s \in Subjects |-> {}]
    /\ fs = [b \in ArchBases |-> NoDir]
    /\ old = <<>>
    /\ runs = <<>>
    /\ nmsg = 0
    /\ ev = NoEvent
    /\ dn = DnIdle
    /\ san = SanIdle

\* a project directory is made and filled; its keystore tells the project
\* and the number of entries archived before it
ArchCreate(b, src) ==
    /\ ~fs[b].exists
    /\ fs' = [fs EXCEPT ![b] =
                 [PriorDir EXCEPT
                     !.jks = Some([src |-> src, by |-> <<b, Cardinality(DOMAIN old)>>]),
                     !.pem = Some([src |-> src, by |-> <<b, Cardinality(DOMAIN old)>>])]]
    /\ UNCHANGED <<fsm, conts, old, runs, nmsg, ev, dn, san>>

\* _archive_existing_project(b)
ArchArchive(b) ==
    /\ Cardinality(DOMAIN old) < MaxArchived
    /\ LET a == archive_existing_project(b, fs, old) IN
       /\ fs' = a.fs
       /\ old' = a.old
    /\ UNCHANGED <<fsm, conts, runs, nmsg, ev, dn, san>>

NextArch ==
    \/ \E b \in ArchBases, src \in {"gen", "upload"} : ArchCreate(b, src)
    \/ \E b \in ArchBases : ArchArchive(b)

SpecArch == InitArch /\ [][NextArch]_vars

(* C16: disambiguation.  Every step that changes the superseded area moves *)
(* one existing project into one entry that was not there before, with the *)
(* project's content, and leaves every entry that was there as it was; so  *)
(* two archive operations, of one base name or of two, never share an      *)
(* entry.                                                                  *)
C16_Disambiguation ==
    [][old' # old =>
         /\ \A e \in DOMAIN old : e \in DOMAIN old' /\ old'[e] = old[e]
         /\ \E b \in DOMAIN fs : \E e \in DOMAIN old' :
               /\ e \notin DOMAIN old
               /\ DOMAIN old' = DOMAIN old \cup {e}
               /\ fs[b].exists
               /\ old'[e] = fs[b]
               /\ ~fs'[b].exists
    ]_vars

\* project p-1 was archived, then project p three times: the entries are
\* p-1, p, p-2 and p-3, each with the content of its own archive operation
C16_Witness ==
    /\ DOMAIN old = { <<"p">>, <<"p", "-", "1">>, <<"p", "-", "2">>, <<"p", "-", "3">> }
    /\ Val(old[<<"p", "-", "1">>].jks).by = << <<"p", "-", "1">>, 0 >>
    /\ Val(old[<<"p">>].jks).by = << <<"p">>, 1 >>
    /\ Val(old[<<"p", "-", "2">>].jks).by = << <<"p">>, 2 >>
    /\ Val(old[<<"p", "-", "3">>].jks).by = << <<"p">>, 3 >>

(* C17: requester metadata is best effort.  No run whose write of the      *)
(* requester metadata failed, keystore, certificate and summary being      *)
(* there, is over without having delivered.                                *)
C17_MetadataBestEffort ==
    \A i \in 1..Len(runs) :
       (runs[i].fault = "write" /\ ~IsNone(runs[i].info)) => ~Failed(runs[i])

\* alphanumerics, dot, underscore and hyphen
NameChars ==
    {UpperCase[k] : k \in 1..26} \cup {LowerCase[k] : k \in 1..26}
    \cup {Digits[k] : k \in 1..10} \cup {".", "_", "-"}

(* C18: sanitization is idempotent and never empty.  The sanitized form of *)
(* a text is not empty and holds only alphanumerics, dot, underscore and   *)
(* hyphen, and sanitizing it again gives the same text.                    *)
C18_SanitizeIdempotent ==
    /\ san.phase \in {"once", "twice"} =>
          /\ san.once # <<>>
          /\ \A k \in 1..Len(san.once) : san.once[k] \in NameChars
    /\ san.phase = "twice" => san.twice = san.once

\* a text with a run of two characters to replace was sanitized twice, and
\* so was a blank text, which gave the default name
C18_Witness ==
    /\ san.phase = "twice"
    /\ \/ san.input = <<"/", " ", "a">> /\ san.twice = <<"_", "a">>
       \/ san.input = <<" ">> /\ san.twice = <<"k", "e", "y", "s", "t", "o", "r", "e">>

(* C19: the pending request is consumed.  Every dispatch in which a        *)
(* handler starts a run leaves the subject of the message idle, with no    *)
(* pending request and no pending package name.                            *)
C19_PendingConsumed ==
    [][(nmsg' = nmsg + 1 /\ ev'.run # 0) =>
          /\ Len(runs') = Len(runs) + 1
          /\ fsm'[ev'.subj] = IdleCtx
    ]_vars

(* C20: entering waiting_existing_choice.  A subject enters the state only *)
(* when the answer to one of its text_handler calls returned, and such a   *)
(* call is suspended in its answer only by the dispatch of a non-blank     *)
(* text of an idle subject whose project holds all four artifacts, a       *)
(* dispatch that starts no run; the dispatch of a non-blank text to        *)
(* text_handler for a project that does not hold all four artifacts starts *)
(* a run at once; and the dispatch of an upload never takes a subject into *)
(* the state.                                                              *)
C20_EnteringReuseChoice ==
    /\ [][\A s \in Subjects :
             (fsm[s].state # "waiting_existing_choice"
              /\ fsm'[s].state = "waiting_existing_choice") =>
                /\ nmsg' = nmsg
                /\ \E package_name \in conts[s] :
                      /\ conts'[s] = conts[s] \ {package_name}
                      /\ fsm'[s].package_name = Some(package_name)
       ]_vars
    /\ [][nmsg' = nmsg + 1 =>
             LET s == ev'.subj
                 m == ev'.msg
                 dir == fs[sanitize_name(Strip(m.text))]
             IN
             /\ conts'[s] # conts[s] =>
                   /\ ev'.handler = "text_handler"
                   /\ fsm[s].state = "idle"
                   /\ Strip(m.text) # <<>>
                   /\ conts'[s] = conts[s] \cup {Strip(m.text)}
                   /\ Complete(dir)
                   /\ runs' = runs
             /\ (ev'.handler = "text_handler" /\ Strip(m.text) # <<>> /\ ~Complete(dir)) =>
                   /\ ev'.run = Len(runs) + 1
                   /\ Len(runs') = Len(runs) + 1
                   /\ conts' = conts
             /\ m.kind = "document" =>
                   /\ conts' = conts
                   /\ fsm[s].state # "waiting_existing_choice" =>
                         fsm'[s].state # "waiting_existing_choice"
       ]_vars

(* C21: genkeypair never meets an existing keystore.  In every step in    *)
(* which a run invokes genkeypair, the run comes from the await before     *)
(* generation and has invoked nothing yet, and the project directory of    *)
(* the state the step starts in either holds no keystore and no            *)
(* certificate, or is, in that same step, moved whole into an archive      *)
(* entry that was not there; the keystore in the directory after the step  *)
(* is none or the one this run generated.                                  *)
C21_GenkeypairOnFreshPath ==
    [][\A i \in 1..Len(runs) :
         (/\ Len(runs'[i].calls) > Len(runs[i].calls)
          /\ runs'[i].calls[Len(runs[i].calls) + 1].cmd = "genkeypair") =>
            LET r == runs[i]
                r2 == runs'[i]
                b == Val(r.base_name)
            IN
            /\ r.pc = "generate"
            /\ r.calls = <<>>
            /\ \/ IsNone(fs[b].jks) /\ IsNone(fs[b].pem) /\ old' = old
               \/ /\ IsNone(r.archived)
                  /\ ~IsNone(r2.archived)
                  /\ Val(r2.archived).entry \notin DOMAIN old
                  /\ Val(r2.archived).dir = fs[b]
                  /\ OldKept(r2, old')
            /\ fs'[b].jks \in {None, Some([src |-> "gen", by |-> i])}
            /\ fs'[b].pem \in {None, Some([src |-> "gen", by |-> i])}
    ]_vars

\* a run invoked genkeypair after it moved a project that held a keystore
\* and no certificate into the superseded area
C21_Witness ==
    \E i \in 1..Len(runs) :
       /\ runs[i].calls # <<>>
       /\ runs[i].calls[1].cmd = "genkeypair"
       /\ ~IsNone(runs[i].archived)
       /\ ~IsNone(Val(runs[i].archived).dir.jks)
       /\ IsNone(Val(runs[i].archived).dir.pem)
       /\ OldKept(runs[i], old)

============================================================================
